---- MODULE Spec2Model ----
(***************************************************************************)
(* A model of the client-side synchronisation core of the music manager:   *)
(*   - the library store AppState (frontend/src/lib/state/app.svelte.ts)   *)
(*     with its grouping worker (workers/song.ts, src/unnamed/part_018);   *)
(*   - the job state mirror of the Jobs page                               *)
(*     (frontend/src/pages/admin/Jobs.svelte).                             *)
(* JavaScript values are modelled as strings; an object is a function from *)
(* its own keys to values, so an absent key stays distinguishable from a   *)
(* key holding null.                                                       *)
(***************************************************************************)
EXTENDS Integers, Sequences, FiniteSets, TLC

VARIABLES
    \* ---- AppState (library store) ----
    build,               \* "dev" | "prod": which Svelte build runs the page
    tracks,              \* _tracks: Map key -> Song
    editedTracks,        \* _editedTracks: Map id -> Song
    artists,             \* _artists: Map label -> Array<Song>
    albums,              \* _albums: Map label -> Array<Song>
    selectedItem,        \* _selectedItem: Item | null
    organizing,          \* [artists |-> _organizingArtists, albums |-> _organizingAlbums]
    fetchingTracks,      \* _fetchingTracks
    autoOrganize,        \* [artists |-> autoOrganizeArtists, albums |-> autoOrganizeAlbums]
    \* ---- grouping worker and the two message channels ----
    songs,               \* the worker's `songs` snapshot
    toWorker,            \* posted requests the worker has not handled yet
    fromWorker,          \* posted responses the main thread has not handled yet
    fetches,             \* getSongs() calls whose response has not arrived
    \* ---- history variables (not program state) ----
    loadHist,            \* fetchTracks calls: how many, what each fetched
    groupHist,           \* grouping requests: generations issued and applied
    editHist,            \* edits made through the editor
    thrown,              \* the exception the last main-thread handler ended with, or ""
    \* ---- Jobs page ----
    jobs,                \* jobs: Array<RegistryJob>, here the job ids
    jobStates,           \* jobStates: Map runId -> JobUiState, in insertion order
    jobQueue,            \* jobQueue: Array<string>
    jobReports,          \* jobReports: Map jobId -> report
    mountPc,             \* which await of onMount the page is at
    jobCalls,            \* queueJob() / cancelJob() calls not yet answered
    jobHist,             \* history: clicks, runs removed, last declared order
    \* ---- AppState (router) ----
    routes,              \* _routes: the pages given to the constructor
    page,                \* _page: PageResponse
    navHist,             \* history: changePage calls, callbacks of the last one
    \* ---- the backend of the Jobs page ----
    backend,             \* the server's jobs state, its events and answers under way
    \* ---- utilities and components ----
    compared,            \* a call of deepCompare: its arguments and its result
    listbox              \* the Listbox component: options, selected index, last call

storeVars == <<build, tracks, editedTracks, artists, albums, selectedItem,
               organizing, fetchingTracks, autoOrganize, songs, toWorker,
               fromWorker, fetches, loadHist, groupHist, editHist, thrown>>
jobVars == <<jobs, jobStates, jobQueue, jobReports, mountPc, jobCalls, jobHist>>
pageVars == <<routes, page, navHist>>
envVars == <<backend>>
utilVars == <<compared, listbox>>
vars == <<storeVars, jobVars, pageVars, envVars, utilVars>>

-----------------------------------------------------------------------------
(* JavaScript values *)

Null == "<null>"
Undefined == "<undefined>"
Unknown == "Unknown"
EmptyMap == [k \in {} |-> Undefined]
\* undefined where an object is expected (a Map value, a looked-up song)
UndefinedObject == [undefined |-> Undefined]

\* obj[key]: undefined when the object has no such own key
Get(obj, key) == IF key \in DOMAIN obj THEN obj[key] ELSE Undefined

\* JavaScript truthiness of a string-or-null-or-undefined value
Truthy(v) == v \notin {Null, Undefined, ""}

\* { ...obj, [key]: value }  and  obj[key] = value
With(obj, key, value) ==
    [k \in DOMAIN obj \cup {key} |-> IF k = key THEN value ELSE obj[k]]

\* Map.get(key) of a map of objects: undefined when the key is absent
MapGet(map, key) == IF key \in DOMAIN map THEN map[key] ELSE UndefinedObject

\* for (const [key, value] of payload) map.set(key, value)
MapSetAll(map, payload) ==
    [k \in DOMAIN map \cup DOMAIN payload |->
        IF k \in DOMAIN payload THEN payload[k] ELSE map[k]]

MapDelete(map, key) == [k \in DOMAIN map \ {key} |-> map[k]]

Range(seq) == {seq[i] : i \in DOMAIN seq}

-----------------------------------------------------------------------------
(* Bounds and the libraries the backend may serve *)

MaxLoads == 2
MaxSchedules == 2
MaxEdits == 1

SongA1 == [id |-> "t1", artist |-> "A", album |-> "X"]
SongB2 == [id |-> "t2", artist |-> "B", album |-> "X"]
SongN2 == [id |-> "t2", artist |-> Null, album |-> "Y"]
SongU1 == [id |-> "t1", album |-> "Y"]

\* What GET /api/songs/ may answer: a list of songs with distinct ids
Libraries == {<<>>, <<SongA1, SongN2>>, <<SongU1, SongB2>>}

EditValues == {"A", "Z"}
EditFields == {"title", "artist", "album"}

Kinds == {"artists", "albums"}
FieldOf(kind) == IF kind = "artists" THEN "artist" ELSE "album"
RequestOf(kind) == IF kind = "artists" THEN "groupArtists" ELSE "groupAlbums"

-----------------------------------------------------------------------------
(* The grouping worker: workers/song.ts *)

\* .map((song) => song.artist).map((artist) => artist || "Unknown")
LabelOf(song, field) ==
    IF Truthy(Get(song, field)) THEN Get(song, field) ELSE Unknown

\* songs.filter(...): the members the worker lists under a label
MembersOf(snapshot, field, label) ==
    LET Keep(song) == IF label = Unknown
                      THEN Get(song, field) = Undefined
                      ELSE Get(song, field) = label
    IN SelectSeq(snapshot, Keep)

\* new Map(songs.map(...).map(...).map((label) => [label, songs.filter(...)]))
GroupBy(snapshot, field) ==
    [label \in {LabelOf(snapshot[i], field) : i \in DOMAIN snapshot} |->
        MembersOf(snapshot, field, label)]

Message(type, payload, tag) == [type |-> type, payload |-> payload, tag |-> tag]

\* onmessage of the worker: one request in, one response out
WorkerResponse(request, snapshot) ==
    IF request.type = "initialize"
    THEN Message("initialize", request.payload, request.tag)
    ELSE IF request.type = "groupArtists"
    THEN Message("groupArtists", GroupBy(snapshot, "artist"), request.tag)
    ELSE Message("groupAlbums", GroupBy(snapshot, "album"), request.tag)

\* A worker whose latest response overtakes those not yet delivered
WorkerOnMessageOvertaking ==
    /\ toWorker # <<>>
    /\ LET request == Head(toWorker) IN
        /\ songs' = IF request.type = "initialize" THEN request.payload ELSE songs
        /\ fromWorker' = <<WorkerResponse(request, songs')>> \o fromWorker
    /\ toWorker' = Tail(toWorker)
    /\ UNCHANGED <<build, tracks, editedTracks, artists, albums, selectedItem,
                   organizing, fetchingTracks, autoOrganize, fetches,
                   loadHist, groupHist, editHist, thrown>>
    /\ UNCHANGED <<jobVars, pageVars, envVars, utilVars>>

\* A worker that adds the songs of an initialize request to those it holds
WorkerOnMessageKeeping ==
    /\ toWorker # <<>>
    /\ LET request == Head(toWorker) IN
        /\ songs' = IF request.type = "initialize"
                    THEN songs \o request.payload ELSE songs
        /\ fromWorker' = Append(fromWorker, WorkerResponse(request, songs'))
    /\ toWorker' = Tail(toWorker)
    /\ UNCHANGED <<build, tracks, editedTracks, artists, albums, selectedItem,
                   organizing, fetchingTracks, autoOrganize, fetches,
                   loadHist, groupHist, editHist, thrown>>
    /\ UNCHANGED <<jobVars, pageVars, envVars, utilVars>>

WorkerOnMessage ==
    /\ toWorker # <<>>
    /\ LET request == Head(toWorker) IN
        /\ songs' = IF request.type = "initialize" THEN request.payload ELSE songs
        /\ fromWorker' = Append(fromWorker, WorkerResponse(request, songs'))
    /\ toWorker' = Tail(toWorker)
    /\ UNCHANGED <<build, tracks, editedTracks, artists, albums, selectedItem,
                   organizing, fetchingTracks, autoOrganize, fetches,
                   loadHist, groupHist, editHist, thrown>>
    /\ UNCHANGED <<jobVars, pageVars, envVars, utilVars>>

-----------------------------------------------------------------------------
(* AppState: lib/state/app.svelte.ts *)

IsGroup(item) == item.type = "group"
IsSong(item) == item.type = "song"
SongItem(song) == [type |-> "song", song |-> song]
GroupItem(label, members) == [type |-> "group", label |-> label, songs |-> members]
NoItem == [type |-> "null"]

\* An equality that takes a song for the group that lists it
IsItemEqualByMembers(a, b) ==
    IF a = NoItem \/ b = NoItem THEN a = b
    ELSE IF IsSong(a) /\ IsSong(b) THEN a.song.id = b.song.id
    ELSE IF IsGroup(a) /\ IsGroup(b) THEN a.label = b.label
    ELSE IF IsGroup(a) THEN \E i \in DOMAIN a.songs : a.songs[i].id = b.song.id
    ELSE \E i \in DOMAIN b.songs : b.songs[i].id = a.song.id

IsItemEqual(a, b) ==
    IF a = NoItem \/ b = NoItem THEN a = b
    ELSE IF IsSong(a) /\ IsSong(b) THEN a.song.id = b.song.id
    ELSE IF IsGroup(a) /\ IsGroup(b) THEN a.label = b.label
    ELSE FALSE

\* new SvelteMap(payload): every element of the iterable is read as an entry
\* [key, value], that is element[0] and element[1]
MapFromEntries(payload) ==
    [k \in {Get(payload[i], "0") : i \in DOMAIN payload} |->
        LET last == CHOOSE i \in DOMAIN payload :
                        /\ Get(payload[i], "0") = k
                        /\ \A j \in DOMAIN payload :
                              Get(payload[j], "0") = k => j <= i
        IN IF "1" \in DOMAIN payload[last] THEN payload[last]["1"]
           ELSE UndefinedObject]

\* The test of _editItem: the original exists and every own key of it other
\* than "unknown" holds the same value in the edited song
SameAsOriginal(original, song) ==
    /\ original # UndefinedObject
    /\ \A key \in DOMAIN original :
          key = "unknown" \/ original[key] = Get(song, key)

\* _editItem for one song
EditSong(edited, canon, song) ==
    IF SameAsOriginal(MapGet(canon, song.id), song)
    THEN MapDelete(edited, song.id)
    ELSE With(edited, song.id, song)

RECURSIVE EditSongs(_, _, _)
EditSongs(edited, canon, members) ==
    IF members = <<>> THEN edited
    ELSE EditSongs(EditSong(edited, canon, Head(members)), canon, Tail(members))

\* _editItem(item)
EditItem(edited, canon, item) ==
    IF IsGroup(item) THEN EditSongs(edited, canon, item.songs)
    ELSE EditSong(edited, canon, item.song)

\* $effect: if (this._selectedItem) this._editItem(this._selectedItem)
EditEffect(edited, canon, item) ==
    IF item # NoItem THEN EditItem(edited, canon, item) ELSE edited

\* An auto-organize effect that schedules nothing
AutoKindsNone(canon, auto) == {}

\* $effect: which kinds the auto-organize effect schedules when it runs
AutoKinds(canon, auto) ==
    IF Cardinality(DOMAIN canon) > 0 THEN {k \in Kinds : auto[k]} ELSE {}

\* The requests scheduleOrganizeArtists / scheduleOrganizeAlbums post, artists
\* first, each tagged with its generation
Requests(scheduled) ==
    (IF "artists" \in scheduled
     THEN <<Message("groupArtists", <<>>, groupHist.issued["artists"] + 1)>>
     ELSE <<>>)
    \o (IF "albums" \in scheduled
        THEN <<Message("groupAlbums", <<>>, groupHist.issued["albums"] + 1)>>
        ELSE <<>>)

\* scheduleOrganizeArtists() and scheduleOrganizeAlbums() for the kinds in
\* `scheduled`, appended to the requests `posted` by the same handler
Schedule(scheduled, posted) ==
    /\ artists' = IF "artists" \in scheduled THEN EmptyMap ELSE artists
    /\ albums' = IF "albums" \in scheduled THEN EmptyMap ELSE albums
    /\ toWorker' = toWorker \o posted \o Requests(scheduled)
    /\ organizing' = [k \in Kinds |-> organizing[k] \/ k \in scheduled]
    /\ groupHist' =
          [issued |-> [k \in Kinds |-> groupHist.issued[k]
                                        + (IF k \in scheduled THEN 1 ELSE 0)],
           source |-> [k \in Kinds |-> IF k \in scheduled THEN EmptyMap
                                       ELSE groupHist.source[k]]]

\* The calls of fetchTracks that have not run to completion: the fetch, the
\* initialize request or its acknowledgement is still on its way
LoadsInFlight ==
    fetches
    \cup {toWorker[i].tag : i \in {j \in DOMAIN toWorker : toWorker[j].type = "initialize"}}
    \cup {fromWorker[i].tag : i \in {j \in DOMAIN fromWorker : fromWorker[j].type = "initialize"}}

\* fetchTracks(), up to its await
FetchTracks ==
    /\ fetches' = fetches \cup {loadHist.calls + 1}
    /\ loadHist' = [calls |-> loadHist.calls + 1,
                    latest |-> <<>>,
                    superseded |-> loadHist.superseded \cup LoadsInFlight]
    /\ thrown' = ""
    /\ UNCHANGED <<build, tracks, editedTracks, artists, albums, selectedItem,
                   organizing, fetchingTracks, autoOrganize, songs, toWorker,
                   fromWorker, groupHist, editHist>>
    /\ UNCHANGED <<jobVars, pageVars, envVars, utilVars>>

\* fetchTracks() after its await: getSongs() answered with a list
FetchTracksResume(call, library) ==
    /\ call \in fetches
    /\ fetches' = fetches \ {call}
    /\ toWorker' = Append(toWorker, Message("initialize", library, call))
    /\ loadHist' = IF call = loadHist.calls
                   THEN [loadHist EXCEPT !.latest = <<library>>]
                   ELSE loadHist
    /\ thrown' = ""
    /\ UNCHANGED <<build, tracks, editedTracks, artists, albums, selectedItem,
                   organizing, fetchingTracks, autoOrganize, songs,
                   fromWorker, groupHist, editHist>>
    /\ UNCHANGED <<jobVars, pageVars, envVars, utilVars>>

\* A fetchTracks that sends what it has when the request fails
FetchTracksRejectSending(call) ==
    /\ call \in fetches
    /\ fetches' = fetches \ {call}
    /\ toWorker' = Append(toWorker, Message("initialize", <<>>, call))
    /\ thrown' = ""
    /\ UNCHANGED <<build, tracks, editedTracks, artists, albums, selectedItem,
                   organizing, fetchingTracks, autoOrganize, songs,
                   fromWorker, loadHist, groupHist, editHist>>
    /\ UNCHANGED <<jobVars, pageVars, envVars, utilVars>>

\* fetchTracks() after its await: getSongs() rejected (fetchJson, !response.ok)
FetchTracksReject(call) ==
    /\ call \in fetches
    /\ fetches' = fetches \ {call}
    /\ thrown' = "JSON fetch failed..."
    /\ UNCHANGED <<build, tracks, editedTracks, artists, albums, selectedItem,
                   organizing, fetchingTracks, autoOrganize, songs, toWorker,
                   fromWorker, loadHist, groupHist, editHist>>
    /\ UNCHANGED <<jobVars, pageVars, envVars, utilVars>>

\* Whether new SvelteMap(payload) throws: the production build destructures
\* every element as [key, value], which a song object does not allow; the
\* development build first copies the payload with new Map(payload)
MapConstructorThrows(payload) ==
    /\ build = "prod"
    /\ \E i \in DOMAIN payload : "0" \notin DOMAIN payload[i]

\* _worker.onmessage, { type: "initialize" }, and the effects it triggers
OnInitialize ==
    /\ fromWorker # <<>>
    /\ Head(fromWorker).type = "initialize"
    /\ fromWorker' = Tail(fromWorker)
    /\ LET payload == Head(fromWorker).payload IN
        \/ /\ MapConstructorThrows(payload)
           /\ thrown' = "TypeError"
           /\ UNCHANGED <<tracks, editedTracks, artists, albums, toWorker,
                          organizing, groupHist>>
        \/ /\ ~MapConstructorThrows(payload)
           /\ tracks' = MapFromEntries(payload)
           /\ editedTracks' = EditEffect(editedTracks, tracks', selectedItem)
           /\ Schedule(AutoKinds(tracks', autoOrganize), <<>>)
           /\ thrown' = ""
    /\ UNCHANGED <<build, selectedItem, fetchingTracks, autoOrganize, songs,
                   fetches, loadHist, editHist>>
    /\ UNCHANGED <<jobVars, pageVars, envVars, utilVars>>

\* _worker.onmessage, { type: "groupArtists" } and { type: "groupAlbums" }
OnGroup(kind) ==
    /\ fromWorker # <<>>
    /\ Head(fromWorker).type = RequestOf(kind)
    /\ fromWorker' = Tail(fromWorker)
    /\ LET payload == Head(fromWorker).payload
           tag == Head(fromWorker).tag
       IN /\ artists' = IF kind = "artists" THEN MapSetAll(artists, payload)
                        ELSE artists
          /\ albums' = IF kind = "albums" THEN MapSetAll(albums, payload)
                       ELSE albums
          /\ groupHist' = [groupHist EXCEPT !.source[kind] =
                              MapSetAll(@, [label \in DOMAIN payload |-> tag])]
    /\ organizing' = [organizing EXCEPT ![kind] = FALSE]
    /\ thrown' = ""
    /\ UNCHANGED <<build, tracks, editedTracks, selectedItem, fetchingTracks,
                   autoOrganize, songs, toWorker, fetches, loadHist, editHist>>
    /\ UNCHANGED <<jobVars, pageVars, envVars, utilVars>>

\* scheduleOrganizeArtists() / scheduleOrganizeAlbums(), called by a page
ScheduleOrganize(kind) ==
    /\ Schedule({kind}, <<>>)
    /\ thrown' = ""
    /\ UNCHANGED <<build, tracks, editedTracks, selectedItem, fetchingTracks,
                   autoOrganize, songs, fromWorker, fetches, loadHist, editHist>>
    /\ UNCHANGED <<jobVars, pageVars, envVars, utilVars>>

\* app.autoOrganizeArtists = true / app.autoOrganizeAlbums = true, and the
\* auto-organize effect, which has read both flags whenever tracks.size > 0
SetAutoOrganize(kind) ==
    /\ ~autoOrganize[kind]
    /\ autoOrganize' = [autoOrganize EXCEPT ![kind] = TRUE]
    /\ Schedule(AutoKinds(tracks, autoOrganize'), <<>>)
    /\ thrown' = ""
    /\ UNCHANGED <<build, tracks, editedTracks, selectedItem, fetchingTracks,
                   songs, fromWorker, fetches, loadHist, editHist>>
    /\ UNCHANGED <<jobVars, pageVars, envVars, utilVars>>

\* app.editedTracks.get(id) || track: the record a page shows for a track
EffectiveRecord(track) ==
    IF track.id \in DOMAIN editedTracks THEN editedTracks[track.id] ELSE track

\* The items the Albums page offers: a group of app.albums or one of its tracks
Selectable ==
    {GroupItem(label, [i \in DOMAIN albums[label] |->
                          EffectiveRecord(albums[label][i])]) :
        label \in DOMAIN albums}
    \cup {SongItem(EffectiveRecord(track)) :
            track \in UNION {Range(albums[label]) : label \in DOMAIN albums}}
    \cup {NoItem}

\* A setter after which the auto-organize effect runs again
SetSelectedItemScheduling(item) ==
    /\ selectedItem' = item
    /\ editedTracks' = EditEffect(editedTracks, tracks, item)
    /\ Schedule(AutoKinds(tracks, autoOrganize), <<>>)
    /\ thrown' = ""
    /\ UNCHANGED <<build, tracks, fetchingTracks, autoOrganize, songs,
                   fromWorker, fetches, loadHist, editHist>>
    /\ UNCHANGED <<jobVars, pageVars, envVars, utilVars>>

\* A setter that stores the item whether or not it equals the selection
SetSelectedItemAlways(item) ==
    /\ selectedItem' = item
    /\ editedTracks' = EditEffect(editedTracks, tracks, item)
    /\ thrown' = ""
    /\ UNCHANGED <<build, tracks, artists, albums, organizing, fetchingTracks,
                   autoOrganize, songs, toWorker, fromWorker, fetches,
                   loadHist, groupHist, editHist>>
    /\ UNCHANGED <<jobVars, pageVars, envVars, utilVars>>

\* set selectedItem(item), and the edit effect when the selection changed
SetSelectedItem(item) ==
    /\ IF IsItemEqual(selectedItem, item)
       THEN UNCHANGED <<selectedItem, editedTracks>>
       ELSE /\ selectedItem' = item
            /\ editedTracks' = EditEffect(editedTracks, tracks, item)
    /\ thrown' = ""
    /\ UNCHANGED <<build, tracks, artists, albums, organizing, fetchingTracks,
                   autoOrganize, songs, toWorker, fromWorker, fetches,
                   loadHist, groupHist, editHist>>
    /\ UNCHANGED <<jobVars, pageVars, envVars, utilVars>>

\* The tracks app.albums lists, and the one with a given id, if any
AlbumTracks == UNION {Range(albums[label]) : label \in DOMAIN albums}
AlbumTrack(id) ==
    IF \E track \in AlbumTracks : track.id = id
    THEN CHOOSE track \in AlbumTracks : track.id = id
    ELSE UndefinedObject

\* The editor writes one field of the selected song, or one field of every
\* song of the selected group; the edit effect follows
EditSelected(field, value) ==
    /\ selectedItem # NoItem
    /\ IF IsSong(selectedItem)
       THEN /\ \/ field \in {"title", "artist"}
               \/ Truthy(Get(selectedItem.song, field))
            /\ selectedItem' = SongItem(With(selectedItem.song, field, value))
            /\ editHist' =
                 [count |-> editHist.count + 1,
                  merged |->
                    LET id == selectedItem.song.id
                        known == id \in DOMAIN editHist.merged
                        base == IF known THEN editHist.merged[id].base
                                ELSE AlbumTrack(id)
                        before == IF known THEN editHist.merged[id].now
                                  ELSE AlbumTrack(id)
                    IN IF base = UndefinedObject THEN editHist.merged
                       ELSE With(editHist.merged, id,
                                 [base |-> base, now |-> With(before, field, value)])]
       ELSE /\ field = "album"
            /\ selectedItem' =
                 GroupItem(selectedItem.label,
                           [i \in DOMAIN selectedItem.songs |->
                               With(selectedItem.songs[i], field, value)])
            /\ editHist' = [editHist EXCEPT !.count = @ + 1]
    /\ editedTracks' = EditEffect(editedTracks, tracks, selectedItem')
    /\ thrown' = ""
    /\ UNCHANGED <<build, tracks, artists, albums, organizing, fetchingTracks,
                   autoOrganize, songs, toWorker, fromWorker, fetches,
                   loadHist, groupHist>>
    /\ UNCHANGED <<jobVars, pageVars, envVars, utilVars>>

\* An extendTrackInfo that stores the info under an id it does not know
ExtendTrackInfoCreating(id, info) ==
    /\ tracks' = With(tracks, id, info)
    /\ thrown' = ""
    /\ UNCHANGED <<build, editedTracks, artists, albums, selectedItem,
                   organizing, fetchingTracks, autoOrganize, songs, toWorker,
                   fromWorker, fetches, loadHist, groupHist, editHist>>
    /\ UNCHANGED <<jobVars, pageVars, envVars, utilVars>>

\* extendTrackInfo(id, info)
ExtendTrackInfo(id, info) ==
    /\ IF MapGet(tracks, id) # UndefinedObject
       THEN /\ tracks' = With(tracks, id,
                              [k \in DOMAIN tracks[id] \cup DOMAIN info |->
                                  IF k \in DOMAIN info THEN info[k]
                                  ELSE tracks[id][k]])
            /\ thrown' = ""
       ELSE /\ thrown' = "Track not found"
            /\ UNCHANGED tracks
    /\ UNCHANGED <<build, editedTracks, artists, albums, selectedItem,
                   organizing, fetchingTracks, autoOrganize, songs, toWorker,
                   fromWorker, fetches, loadHist, groupHist, editHist>>
    /\ UNCHANGED <<jobVars, pageVars, envVars, utilVars>>

TrackIds == {"t1", "t2"}
ExtraInfo == {[title |-> "Z"]}

InitStore ==
    /\ build \in {"dev", "prod"}
    /\ tracks = EmptyMap
    /\ editedTracks = EmptyMap
    /\ artists = EmptyMap
    /\ albums = EmptyMap
    /\ selectedItem = NoItem
    /\ organizing = [k \in Kinds |-> FALSE]
    /\ fetchingTracks = TRUE
    /\ autoOrganize = [k \in Kinds |-> FALSE]
    /\ songs = <<>>
    /\ toWorker = <<>>
    /\ fromWorker = <<>>
    /\ fetches = {1}
    /\ loadHist = [calls |-> 1, latest |-> <<>>, superseded |-> {}]
    /\ groupHist = [issued |-> [k \in Kinds |-> 0],
                    source |-> [k \in Kinds |-> EmptyMap]]
    /\ editHist = [count |-> 0, merged |-> EmptyMap]
    /\ thrown = ""

\* null, where a PageResponse is expected
NoPage == [matched |-> FALSE]

\* No backend is modelled, deepCompare is not called and no Listbox is shown
BackendIdle == [states |-> <<>>, queue |-> <<>>, reports |-> EmptyMap,
                wire |-> <<>>, answers |-> EmptyMap, emitted |-> 0]
NotCompared == [called |-> FALSE]
NoListbox == [shown |-> FALSE]

InitRestIdle ==
    /\ backend = BackendIdle
    /\ compared = NotCompared
    /\ listbox = NoListbox

\* The store was constructed without pages and nothing navigated
InitPagesIdle ==
    /\ routes = <<>>
    /\ page = NoPage
    /\ navHist = [calls |-> 0, path |-> <<>>, invoked |-> 0]

\* The Jobs page is not open
InitJobsIdle ==
    /\ jobs = <<>>
    /\ jobStates = <<>>
    /\ jobQueue = <<>>
    /\ jobReports = EmptyMap
    /\ mountPc = "closed"
    /\ jobCalls = {}
    /\ jobHist = [clicks |-> 0, removed |-> {}, declared |-> <<>>, settled |-> {},
                  malformed |-> "none"]

\* The number of grouping requests issued so far
Issued == groupHist.issued["artists"] + groupHist.issued["albums"]

(* Loading and grouping: the store, the worker and the two channels *)
NextGroup ==
    \/ loadHist.calls < MaxLoads /\ FetchTracks
    \/ \E call \in 1..MaxLoads, library \in Libraries :
          FetchTracksResume(call, library)
    \/ \E call \in 1..MaxLoads : FetchTracksReject(call)
    \/ WorkerOnMessage
    \/ OnInitialize
    \/ \E kind \in Kinds : OnGroup(kind)
    \/ \E kind \in Kinds : Issued < MaxSchedules /\ ScheduleOrganize(kind)

InitGroup == InitStore /\ InitJobsIdle /\ InitPagesIdle /\ InitRestIdle

SpecGroup == InitGroup /\ [][NextGroup]_vars

\* Whether a request of this type, or its response, is still on its way
Outstanding(type) ==
    \/ \E i \in DOMAIN toWorker : toWorker[i].type = type
    \/ \E i \in DOMAIN fromWorker : fromWorker[i].type = type

GroupMap(kind) == IF kind = "artists" THEN artists ELSE albums

\* The places (label, index) at which a group map lists a given track
PlacesOf(map, track) ==
    {place \in UNION {{<<label, i>> : i \in DOMAIN map[label]} : label \in DOMAIN map} :
        map[place[1]][place[2]] = track}

\* A group map is a complete partition of the tracks of a canonical map
IsPartition(map, canon) ==
    /\ \A key \in DOMAIN canon : Cardinality(PlacesOf(map, canon[key])) = 1
    /\ \A label \in DOMAIN map : \A i \in DOMAIN map[label] :
          \E key \in DOMAIN canon : canon[key] = map[label][i]

\* C1: when a grouping of one kind is scheduled again before the response to
\* the earlier request has arrived, the earlier response is discarded, so
\* the labels of that kind's group map never come from two different
\* responses.
C1_NeverMixed ==
    \A kind \in Kinds :
        \A l1, l2 \in DOMAIN groupHist.source[kind] :
            groupHist.source[kind][l1] = groupHist.source[kind][l2]

\* C2: whenever no grouping request of a kind is outstanding and the kind's
\* group map is not empty, the map is a complete partition of the store's
\* tracks: every track is listed exactly once and nothing else is listed.
C2_GroupsPartitionTracks ==
    \A kind \in Kinds :
        (~Outstanding(RequestOf(kind)) /\ DOMAIN GroupMap(kind) # {})
            => IsPartition(GroupMap(kind), tracks)

\* C3: whenever no initialize request or acknowledgement is on its way, the
\* tracks the store holds are the songs of the worker's snapshot.
C3_StoreEqualsWorker ==
    ~Outstanding("initialize")
        => {tracks[key] : key \in DOMAIN tracks} = Range(songs)

\* C4: when fetchTracks was called again before an earlier call had run to
\* completion, then once every call has completed the worker's snapshot is
\* the list the latest call fetched (the claim says the same of the store's
\* tracks, which hold what the worker acknowledged).
C4_LastLoadWins ==
    (LoadsInFlight = {} /\ loadHist.superseded # {} /\ loadHist.latest # <<>>)
        => songs = loadHist.latest[1]


(* Selecting and editing on the Albums page, over a library that may reload *)
NextEdit ==
    \/ loadHist.calls < MaxLoads /\ FetchTracks
    \/ \E call \in 1..MaxLoads, library \in Libraries :
          FetchTracksResume(call, library)
    \/ WorkerOnMessage
    \/ OnInitialize
    \/ OnGroup("albums")
    \/ Issued < MaxSchedules /\ ScheduleOrganize("albums")
    \/ \E item \in Selectable : SetSelectedItem(item)
    \/ \E field \in EditFields, value \in EditValues :
          editHist.count < MaxEdits /\ EditSelected(field, value)
    \/ \E id \in TrackIds, info \in ExtraInfo : ExtendTrackInfo(id, info)

InitEdit == InitStore /\ InitJobsIdle /\ InitPagesIdle /\ InitRestIdle

SpecEdit == InitEdit /\ [][NextEdit]_vars

\* Two records differ in a field other than the "unknown" bucket
Differs(a, b) ==
    \E field \in (DOMAIN a \cup DOMAIN b) \ {"unknown"} :
        Get(a, field) # Get(b, field)

\* C5: an id is in the edit overlay only if it is a key of the store's tracks
\* and its overlay record differs from the store's record in a field other
\* than "unknown" (and every such differing record is in the overlay).
C5_OverlayIffDiffers ==
    \A id \in DOMAIN editedTracks :
        /\ id \in DOMAIN tracks
        /\ Differs(editedTracks[id], tracks[id])

\* C6: after edits of one song, the record the page shows for it (the overlay
\* entry if present, else the track as loaded) is the loaded track with the
\* edits merged in call order, and when that merged record equals the loaded
\* track the overlay does not contain the id.
C6_EffectiveIsMerged ==
    \A id \in DOMAIN editHist.merged :
        AlbumTrack(id) = editHist.merged[id].base
            => /\ EffectiveRecord(AlbumTrack(id)) = editHist.merged[id].now
               /\ editHist.merged[id].now = AlbumTrack(id)
                    => id \notin DOMAIN editedTracks

\* A step that edits the selected song while its id is no key of the tracks
EditOfUnknownId ==
    /\ editHist'.count = editHist.count + 1
    /\ IsSong(selectedItem)
    /\ selectedItem.song.id \notin DOMAIN tracks

\* C7: an edit of an id that is not in the store's tracks ends with an
\* exception raised to the caller and leaves the overlay unchanged.
C7_UnknownIdEditFails ==
    [][EditOfUnknownId => (thrown' # "" /\ editedTracks' = editedTracks)]_vars


-----------------------------------------------------------------------------
(* The Jobs page: pages/admin/Jobs.svelte *)

MaxClicks == 2

RunIds == {"r1", "r2"}
JobIds == {"j1"}
Statuses == {"pending", "inProgress", "done"}

\* A Map that keeps insertion order: a sequence of <<key, value>> entries
Keys(map) == {map[i][1] : i \in DOMAIN map}
EntryAt(map, key) == CHOOSE i \in DOMAIN map : map[i][1] = key
ValueOf(map, key) == map[EntryAt(map, key)][2]
\* Map.set: an existing key keeps its place, a new key goes last
OrderedSet(map, key, value) ==
    IF key \in Keys(map)
    THEN [map EXCEPT ![EntryAt(map, key)] = <<key, value>>]
    ELSE Append(map, <<key, value>>)
\* A delete that spares an entry that has reported progress
OrderedDeleteIdle(map, key) ==
    LET Other(entry) == entry[1] # key \/ "current" \in DOMAIN entry[2]
    IN SelectSeq(map, Other)

\* Map.delete
OrderedDelete(map, key) ==
    LET Other(entry) == entry[1] # key IN SelectSeq(map, Other)

\* A merge that keeps only the new fields
SpreadReplacing(previous, partial) == partial

\* { ...previous, ...partial }
Spread(previous, partial) ==
    [k \in DOMAIN previous \cup DOMAIN partial |->
        IF k \in DOMAIN partial THEN partial[k] ELSE previous[k]]

JobState(job, status) ==
    [jobId |-> job, status |-> status, currentStep |-> "1", values |-> EmptyMap]

\* The strings `new Date(value)` reads as a date, and the Date each becomes
DateStrings == {"2024-01-01"}
DateOf(value) == "Date(2024-01-01)"

\* The reviver of JSON.parse, and the loop of fetchJson over the top-level
\* values: a string that reads as a date is replaced by the Date
ReviveString(value) == IF value \in DateStrings THEN DateOf(value) ELSE value

ReviveStrings(list) == [i \in DOMAIN list |-> ReviveString(list[i])]

\* A JobExecutionReport as the server sends it
Report(result) == [result |-> result, finished |-> "2024-01-01"]

\* JSON.parse(rawEvent.data, reviver): every string of the payload, at any
\* depth, goes through the reviver; numbers and objects are kept
ReviveEvent(event) ==
    [k \in DOMAIN event |->
        IF k \in {"kind", "source", "jobId"} THEN ReviveString(event[k])
        ELSE IF k = "queue" THEN ReviveStrings(event[k])
        ELSE IF k = "report"
        THEN [f \in DOMAIN event[k] |-> ReviveString(event[k][f])]
        ELSE IF k = "state"
        THEN [f \in DOMAIN event[k] |->
                 IF f \in {"jobId", "status"} THEN ReviveString(event[k][f])
                 ELSE event[k][f]]
        ELSE event[k]]

\* The events the stream may deliver
JobEvents ==
    {[kind |-> "stateAdded", source |-> run, state |-> JobState(job, status)] :
        run \in RunIds, job \in JobIds, status \in Statuses}
    \cup {[kind |-> "stateUpdated", source |-> run, state |-> [status |-> status]] :
            run \in RunIds, status \in Statuses}
    \cup {[kind |-> "stateRemoved", source |-> run] : run \in RunIds}
    \cup {[kind |-> "progress", source |-> run, current |-> "1", total |-> "2"] :
            run \in RunIds}
    \cup {[kind |-> "orderUpdated", queue |-> queue] :
            queue \in {<<>>, <<"r1">>, <<"r2">>, <<"r1", "r2">>, <<"r2", "r1">>}}
    \cup {[kind |-> "reportUpdated", jobId |-> job, report |-> report] :
            job \in JobIds, report \in {Report("ok")}}
    \cup {[kind |-> "cancelled", source |-> run] : run \in RunIds}

\* A reportUpdated that also drops the run state stored under the same string
StatesAfterAliased(states, event) ==
    IF event.kind = "stateAdded"
    THEN OrderedSet(states, event.source, event.state)
    ELSE IF event.kind \in {"stateRemoved", "reportUpdated"}
    THEN OrderedDelete(states, IF event.kind = "reportUpdated"
                               THEN event.jobId ELSE event.source)
    ELSE states

\* The listener of "job-event": the run states after one event
StatesAfter(states, event) ==
    IF event.kind = "stateAdded"
    THEN OrderedSet(states, event.source, event.state)
    ELSE IF event.kind = "stateUpdated"
    THEN IF event.source \notin Keys(states) THEN states
         ELSE OrderedSet(states, event.source,
                         Spread(ValueOf(states, event.source), event.state))
    ELSE IF event.kind = "stateRemoved"
    THEN OrderedDelete(states, event.source)
    ELSE IF event.kind = "progress"
    THEN IF event.source \notin Keys(states) THEN states
         ELSE OrderedSet(states, event.source,
                         Spread(ValueOf(states, event.source),
                                [current |-> event.current, total |-> event.total]))
    ELSE states

\* An orderUpdated that adds its payload to the order held
QueueAfterMerged(queue, event) ==
    IF event.kind = "orderUpdated" THEN queue \o event.queue ELSE queue

QueueAfter(queue, event) ==
    IF event.kind = "orderUpdated" THEN event.queue ELSE queue

ReportsAfter(reports, event) ==
    IF event.kind = "reportUpdated"
    THEN With(reports, event.jobId, event.report)
    ELSE reports

\* addSourceEventListener(eventSource, "job-event", ...): one parsed event
ApplyJobEvent(event) ==
    /\ mountPc # "closed"
    /\ \E parsed \in {ReviveEvent(event)} :
        /\ jobStates' = StatesAfter(jobStates, parsed)
        /\ jobQueue' = QueueAfter(jobQueue, parsed)
        /\ jobReports' = ReportsAfter(jobReports, parsed)
        /\ jobHist' =
             [jobHist EXCEPT
                !.removed = IF parsed.kind = "stateRemoved"
                            THEN @ \cup {parsed.source} ELSE @,
                !.declared = IF parsed.kind = "orderUpdated"
                             THEN parsed.queue ELSE @,
                !.malformed = IF @ = "dropped" THEN "followed" ELSE @]
    /\ UNCHANGED <<jobs, mountPc, jobCalls>>

\* One "job-event" of the stream, handled by the listener
OnJobEvent(event) ==
    /\ ApplyJobEvent(event)
    /\ UNCHANGED <<storeVars, pageVars, envVars, utilVars>>

\* A listener that loses the queue order when JSON.parse throws
OnMalformedJobEventClearing ==
    /\ mountPc # "closed"
    /\ jobQueue' = <<>>
    /\ jobHist' = [jobHist EXCEPT !.malformed = "dropped"]
    /\ UNCHANGED <<jobs, jobStates, jobReports, mountPc, jobCalls>>
    /\ UNCHANGED <<storeVars, pageVars, envVars, utilVars>>

\* The listener when JSON.parse throws on the event's data: the catch logs
\* the error and the handler is not called
OnMalformedJobEvent ==
    /\ mountPc # "closed"
    /\ jobHist' = [jobHist EXCEPT !.malformed = "dropped"]
    /\ UNCHANGED <<jobs, jobStates, jobQueue, jobReports, mountPc, jobCalls>>
    /\ UNCHANGED <<storeVars, pageVars, envVars, utilVars>>

\* What GET /api/jobs/state, /api/jobs/order and /api/jobs/reports may answer
StateSnapshots ==
    {<<>>,
     <<<<"r1", JobState("j1", "pending")>>>>,
     <<<<"r1", JobState("j1", "inProgress")>>, <<"r2", JobState("j1", "pending")>>>>}
OrderSnapshots == {<<>>, <<"r1">>, <<"r2">>}
ReportSnapshots == {EmptyMap, [j1 |-> Report("ok")]}

\* onMount: the four awaited fetches, each installing what it fetched
OnMountJobs ==
    /\ mountPc = "getJobs"
    /\ jobs' = <<"j1">>
    /\ mountPc' = "getJobStates"
    /\ UNCHANGED <<jobStates, jobQueue, jobReports, jobCalls, jobHist>>
    /\ UNCHANGED <<storeVars, pageVars, envVars, utilVars>>

OnMountStates(snapshot) ==
    /\ mountPc = "getJobStates"
    /\ jobStates' = snapshot
    /\ mountPc' = "getJobQueueOrder"
    /\ UNCHANGED <<jobs, jobQueue, jobReports, jobCalls, jobHist>>
    /\ UNCHANGED <<storeVars, pageVars, envVars, utilVars>>

OnMountOrder(order) ==
    /\ mountPc = "getJobQueueOrder"
    /\ jobQueue' = ReviveStrings(order)
    /\ mountPc' = "getJobReports"
    /\ jobHist' = [jobHist EXCEPT !.declared = ReviveStrings(order)]
    /\ UNCHANGED <<jobs, jobStates, jobReports, jobCalls>>
    /\ UNCHANGED <<storeVars, pageVars, envVars, utilVars>>

OnMountReports(reports) ==
    /\ mountPc = "getJobReports"
    /\ jobReports' = reports
    /\ mountPc' = "mounted"
    /\ UNCHANGED <<jobs, jobStates, jobQueue, jobCalls, jobHist>>
    /\ UNCHANGED <<storeVars, pageVars, envVars, utilVars>>

\* onMount when one of its fetches rejects: fetchJson throws and the rest of
\* the function never runs
OnMountFails ==
    /\ mountPc \in {"getJobs", "getJobStates", "getJobQueueOrder", "getJobReports"}
    /\ mountPc' = "failed"
    /\ UNCHANGED <<jobs, jobStates, jobQueue, jobReports, jobCalls, jobHist>>
    /\ UNCHANGED <<storeVars, pageVars, envVars, utilVars>>

\* {@const [key, state] = jobStates.entries().find(...) ?? []}: the first run
\* state of a job in the map's order, or <<>>
FirstStateOf(states, job) ==
    LET OfJob(entry) == entry[2].jobId = job
        found == SelectSeq(states, OfJob)
    IN IF found = <<>> THEN <<>> ELSE Head(found)

\* The button's onclick up to its await: cancelJob(key) when the job's run is
\* in progress or pending, queueJob(job.id) otherwise
ClickJob(job) ==
    /\ job \in Range(jobs)
    /\ LET found == FirstStateOf(jobStates, job)
           active == /\ found # <<>>
                     /\ found[2].status \in {"inProgress", "pending"}
       IN jobCalls' = jobCalls \cup
            {[call |-> jobHist.clicks + 1,
              kind |-> IF active THEN "cancel" ELSE "queue",
              target |-> IF active THEN found[1] ELSE job]}
    /\ jobHist' = [jobHist EXCEPT !.clicks = @ + 1]
    /\ UNCHANGED <<jobs, jobStates, jobQueue, jobReports, mountPc>>
    /\ UNCHANGED <<storeVars, pageVars, envVars, utilVars>>

\* The onclick after `await queueJob(job.id)` answered with a run id
QueueAnswered(call, run) ==
    /\ call \in jobCalls
    /\ call.kind = "queue"
    /\ jobCalls' = jobCalls \ {call}
    /\ jobQueue' = Append(jobQueue, run)
    /\ jobStates' = OrderedSet(jobStates, run, JobState(call.target, "pending"))
    /\ UNCHANGED <<jobs, jobReports, mountPc, jobHist>>
    /\ UNCHANGED <<storeVars, pageVars, envVars, utilVars>>

\* A cancel answer that removed the run's state at once
CallSettledOptimistic(call) ==
    /\ call \in jobCalls
    /\ jobCalls' = jobCalls \ {call}
    /\ jobStates' = IF call.kind = "cancel"
                    THEN OrderedDelete(jobStates, call.target) ELSE jobStates
    /\ jobHist' = [jobHist EXCEPT !.settled = @ \cup {call.kind}]
    /\ UNCHANGED <<jobs, jobQueue, jobReports, mountPc>>
    /\ UNCHANGED <<storeVars, pageVars, envVars, utilVars>>

\* The onclick after `await cancelJob(key)`, or after either call rejected
CallSettled(call) ==
    /\ call \in jobCalls
    /\ jobCalls' = jobCalls \ {call}
    /\ jobHist' = [jobHist EXCEPT !.settled = @ \cup {call.kind}]
    /\ UNCHANGED <<jobs, jobStates, jobQueue, jobReports, mountPc>>
    /\ UNCHANGED <<storeVars, pageVars, envVars, utilVars>>

\* The store is set aside: only the Jobs page runs
InitStoreIdle ==
    /\ build = "dev"
    /\ tracks = EmptyMap
    /\ editedTracks = EmptyMap
    /\ artists = EmptyMap
    /\ albums = EmptyMap
    /\ selectedItem = NoItem
    /\ organizing = [k \in Kinds |-> FALSE]
    /\ fetchingTracks = TRUE
    /\ autoOrganize = [k \in Kinds |-> FALSE]
    /\ songs = <<>>
    /\ toWorker = <<>>
    /\ fromWorker = <<>>
    /\ fetches = {}
    /\ loadHist = [calls |-> 1, latest |-> <<>>, superseded |-> {}]
    /\ groupHist = [issued |-> [k \in Kinds |-> 0],
                    source |-> [k \in Kinds |-> EmptyMap]]
    /\ editHist = [count |-> 0, merged |-> EmptyMap]
    /\ thrown = ""

\* The Jobs page right after its script ran: listener added, onMount begun
InitJobs ==
    /\ InitStoreIdle
    /\ InitPagesIdle
    /\ InitRestIdle
    /\ jobs = <<>>
    /\ jobStates = <<>>
    /\ jobQueue = <<>>
    /\ jobReports = EmptyMap
    /\ mountPc = "getJobs"
    /\ jobCalls = {}
    /\ jobHist = [clicks |-> 0, removed |-> {}, declared |-> <<>>, settled |-> {},
                  malformed |-> "none"]

NextJobs ==
    \/ \E event \in JobEvents : OnJobEvent(event)
    \/ OnMountJobs
    \/ \E snapshot \in StateSnapshots : OnMountStates(snapshot)
    \/ \E order \in OrderSnapshots : OnMountOrder(order)
    \/ \E reports \in ReportSnapshots : OnMountReports(reports)
    \/ OnMountFails
    \/ \E job \in JobIds : jobHist.clicks < MaxClicks /\ ClickJob(job)
    \/ \E call \in jobCalls, run \in RunIds : QueueAnswered(call, run)
    \/ \E call \in jobCalls : CallSettled(call)

SpecJobs == InitJobs /\ [][NextJobs]_vars

\* A report for a job whose id is the very string of a run id, and a second
\* report for a job that has one
AliasedReportEvents ==
    {[kind |-> "reportUpdated", jobId |-> "r1", report |-> Report("ok")],
     [kind |-> "reportUpdated", jobId |-> "j1", report |-> Report("failed")]}

\* The Jobs page with its stream only: nobody clicks and the start-up
\* requests are still to be made
NextStream ==
    \/ \E event \in JobEvents \cup AliasedReportEvents : OnJobEvent(event)
    \/ OnMalformedJobEvent

SpecStream == InitJobs /\ [][NextStream]_vars

\* C8: once a stateRemoved event for a run has been applied, the run is
\* never in the run-state map again.
C8_RemovedStaysAbsent ==
    \A run \in jobHist.removed : run \notin Keys(jobStates)

\* C9: whatever the interleaving of queue requests, their responses and
\* stream events, the local queue order is the order the server declared last
\* (fetched, or carried by the latest orderUpdated) and lists no run id twice.
C9_QueueIsDeclaredOrder ==
    /\ jobQueue = jobHist.declared
    /\ \A i, j \in DOMAIN jobQueue : jobQueue[i] = jobQueue[j] => i = j

\* A step in which a queueJob call is answered
QueueAnswerStep ==
    \E call \in jobCalls : call.kind = "queue" /\ call \notin jobCalls'
                           /\ Len(jobQueue') = Len(jobQueue) + 1

\* C10: a queue request and its response insert no run state: a run whose
\* stateAdded ... stateRemoved events were all applied before the response
\* arrived is absent before the response and stays absent after it.
C10_QueueAnswerInsertsNothing ==
    [][QueueAnswerStep =>
         \A run \in jobHist.removed :
            run \notin Keys(jobStates) => run \notin Keys(jobStates')]_vars


\* A step in which a cancel request is issued or settled
CancelStep ==
    \E call \in jobCalls \cup jobCalls' :
        /\ call.kind = "cancel"
        /\ (call \in jobCalls) # (call \in jobCalls')

\* C11: a cancel request and its response change nothing locally: the run
\* states (so the run's status), the queue order and the reports are the same
\* after the step as before it.
C11_CancelChangesNothing ==
    [][CancelStep =>
         /\ jobStates' = jobStates
         /\ jobQueue' = jobQueue
         /\ jobReports' = jobReports]_vars

\* A cancel call was settled and the run it named is still active
C11_Witness ==
    /\ "cancel" \in jobHist.settled
    /\ \E run \in Keys(jobStates) :
          ValueOf(jobStates, run).status \in {"inProgress", "pending"}


-----------------------------------------------------------------------------
(* The worker's answers, over the snapshots SpecGroup lets it hold *)

\* Whether a song has no value for a field: the value is null or undefined
Absent(song, field) == Get(song, field) \in {Null, Undefined}

\* C12: for the snapshot the worker holds, the grouping by artist and the
\* grouping by album are complete partitions of it: every song is listed
\* exactly once, under its field value ("Unknown" when the field is absent),
\* no group is empty and no group lists a song outside the snapshot.
C12_GroupByPartitionsSnapshot ==
    \A kind \in Kinds :
        LET field == FieldOf(kind)
            groups == GroupBy(songs, field)
        IN /\ \A i \in DOMAIN songs :
                 LET places == PlacesOf(groups, songs[i])
                 IN /\ Cardinality(places) = 1
                    /\ \A place \in places :
                          place[1] = IF Absent(songs[i], field) THEN Unknown
                                     ELSE Get(songs[i], field)
           /\ \A label \in DOMAIN groups : groups[label] # <<>>
           /\ \A label \in DOMAIN groups :
                 Range(groups[label]) \subseteq Range(songs)

\* C13: every song of the snapshot whose grouping field is absent, null as
\* well as undefined, is a member of the group "Unknown".
C13_AbsentFieldIsUnknown ==
    \A kind \in Kinds : \A i \in DOMAIN songs :
        Absent(songs[i], FieldOf(kind))
            => /\ Unknown \in DOMAIN GroupBy(songs, FieldOf(kind))
               /\ songs[i] \in Range(GroupBy(songs, FieldOf(kind))[Unknown])

\* A step of the worker: it takes the request at the head of its queue
WorkerStep == toWorker # <<>> /\ toWorker' = Tail(toWorker)

\* C14: the worker holds one snapshot, the payload of the initialize request
\* it processed last: an initialize request replaces it, a grouping request
\* leaves it alone and is answered with the grouping of that snapshot.
C14_GroupedFromHeldSnapshot ==
    [][WorkerStep =>
         LET request == Head(toWorker)
             response == fromWorker'[Len(fromWorker')]
         IN /\ Len(fromWorker') = Len(fromWorker) + 1
            /\ response.type = request.type
            /\ request.type = "initialize" => songs' = request.payload
            /\ request.type = "groupArtists" =>
                  songs' = songs /\ response.payload = GroupBy(songs, "artist")
            /\ request.type = "groupAlbums" =>
                  songs' = songs /\ response.payload = GroupBy(songs, "album")]_vars

\* The worker answered a grouping request after a second load was begun, and
\* the answer lists songs
C14_Witness ==
    /\ loadHist.calls > 1
    /\ songs # <<>>
    /\ \E i \in DOMAIN fromWorker :
          /\ fromWorker[i].type \in {"groupArtists", "groupAlbums"}
          /\ DOMAIN fromWorker[i].payload # {}


-----------------------------------------------------------------------------
(* The router of AppState: mapPageToRoute, _resolveRoute, changePage.        *)
(* A path is the sequence of its characters, so that ===, length and slice  *)
(* are those of the string.                                                  *)

MaxNavigations == 2

Root == <<"/">>

\* str.slice(n)
Slice(str, n) == IF n >= Len(str) THEN <<>> ELSE SubSeq(str, n + 1, Len(str))

\* The pieces between the slashes of what follows a leading "/"
RECURSIVE SplitSlash(_)
SplitSlash(str) ==
    IF \A i \in DOMAIN str : str[i] # "/" THEN <<str>>
    ELSE LET n == CHOOSE i \in DOMAIN str :
                      str[i] = "/" /\ \A j \in 1..(i - 1) : str[j] # "/"
         IN <<SubSeq(str, 1, n - 1)>> \o SplitSlash(Slice(str, n))

\* The segments of a pattern: "/" has none, "/a/:i" has "a" and ":i"
PatternSegments(pattern) ==
    LET pieces == SplitSlash(Tail(pattern))
    IN IF pieces[Len(pieces)] = <<>> THEN SubSeq(pieces, 1, Len(pieces) - 1)
       ELSE pieces

\* A named parameter ":name"
IsParam(segment) == segment # <<>> /\ Head(segment) = ":"

SegmentMatches(segment, piece) ==
    IF IsParam(segment) THEN piece # <<>> ELSE segment = piece

NoMatch == [matched |-> FALSE]

\* matchPath(pattern, { end })(path) of path-to-regexp: the pattern's
\* segments match the first pieces of the path, one trailing slash is
\* allowed, and with `end` nothing else may follow
MatchPath(pattern, end, path) ==
    IF path = <<>> \/ Head(path) # "/" THEN NoMatch
    ELSE LET segments == PatternSegments(pattern)
             pieces == SplitSlash(Tail(path))
             count == Len(segments)
             named == {j \in 1..count : IsParam(segments[j])}
         IN IF /\ Len(pieces) >= count
               /\ \A j \in 1..count : SegmentMatches(segments[j], pieces[j])
               /\ end => Slice(pieces, count) \in {<<>>, <<<<>>>>}
            THEN [matched |-> TRUE,
                  params |-> [name \in {Tail(segments[j]) : j \in named} |->
                                 pieces[CHOOSE j \in named :
                                            Tail(segments[j]) = name]]]
            ELSE NoMatch

\* A matcher that never requires the path to end with the pattern
MatcherPrefix(route, path) == MatchPath(route.path, FALSE, path)

\* mapPageToRoute: the route's matcher ends the path unless it has children
Matcher(route, path) == MatchPath(route.path, route.children = <<>>, path)

\* _resolveRoute(path, routes)
RECURSIVE ResolveRoute(_, _)
ResolveRoute(path, list) ==
    IF list = <<>> THEN NoPage
    ELSE LET route == Head(list)
             match == Matcher(route, path)
             rest == Slice(path, Len(route.path))
         IN IF match.matched
            THEN [matched |-> TRUE,
                  path |-> route.path,
                  name |-> route.name,
                  params |-> match.params,
                  child |-> ResolveRoute(IF rest = <<>> THEN Root ELSE rest,
                                         route.children)]
            ELSE ResolveRoute(path, Tail(list))

\* this._routes.find((route) => route.path === path)?.callback
CallbackOf(path, list) ==
    LET Same(route) == route.path = path
        found == SelectSeq(list, Same)
    IN IF found = <<>> THEN "none" ELSE Head(found).callback

Page(path, name, children, callback) ==
    [path |-> path, name |-> name, children |-> children, callback |-> callback]

\* The page lists the store may be constructed with
RouteTables ==
    {<<Page(Root, "Albums", <<>>, "autoOrganizeAlbums"),
       Page(<<"/", "d">>, "Directories", <<>>, "none")>>,
     <<Page(<<"/", "a", "/", ":", "i">>, "Album", <<>>, "autoOrganizeAlbums"),
       Page(<<"/", "d">>, "Directories",
            <<Page(Root, "Index", <<>>, "none"),
              Page(<<"/", ":", "n">>, "Entry", <<>>, "none")>>, "none")>>,
     <<Page(<<"/", ":", "s">>, "Section", <<>>, "none"),
       Page(<<"/", "d">>, "Directories", <<>>, "autoOrganizeAlbums")>>,
     <<Page(<<"/", "a", "/", ":", "i">>, "Album",
            <<Page(Root, "Index", <<>>, "none"),
              Page(<<"/", "x">>, "Tracks", <<>>, "none")>>, "none")>>}

\* The paths navigated to; the last one is no path at all
Paths ==
    {Root, <<"/", "d">>, <<"/", "a", "/", "5">>, <<"/", "d", "/", "x">>,
     <<"/", "t">>, <<"o">>,
     <<"/", "a", "/", "5", "/", "x">>, <<"/", "a", "/", "5", "5", "/", "x">>,
     <<"/", "d", "/", "x", "/", "y">>}

\* A changePage that keeps the current page when the path resolves to none
ChangePageKeeping(path) ==
    /\ page' = IF ResolveRoute(path, routes) = NoPage THEN page
               ELSE ResolveRoute(path, routes)
    /\ navHist' = [calls |-> navHist.calls + 1, path |-> path, invoked |-> 0]
    /\ thrown' = ""
    /\ UNCHANGED <<build, tracks, editedTracks, selectedItem, fetchingTracks,
                   songs, fromWorker, fetches, loadHist, editHist,
                   autoOrganize, artists, albums, toWorker, organizing,
                   groupHist>>
    /\ UNCHANGED <<jobVars, routes, envVars, utilVars>>

\* changePage(path), with the callback the shell declares for its landing
\* page (app.autoOrganizeAlbums = true) and the effect that follows it
ChangePage(path) ==
    /\ page' = ResolveRoute(path, routes)
    /\ LET callback == CallbackOf(path, routes) IN
        /\ navHist' = [calls |-> navHist.calls + 1,
                       path |-> path,
                       invoked |-> IF callback = "none" THEN 0 ELSE 1]
        /\ IF callback = "autoOrganizeAlbums" /\ ~autoOrganize["albums"]
           THEN /\ autoOrganize' = [autoOrganize EXCEPT !["albums"] = TRUE]
                /\ Schedule(AutoKinds(tracks, autoOrganize'), <<>>)
           ELSE UNCHANGED <<autoOrganize, artists, albums, toWorker,
                            organizing, groupHist>>
    /\ thrown' = ""
    /\ UNCHANGED <<build, tracks, editedTracks, selectedItem, fetchingTracks,
                   songs, fromWorker, fetches, loadHist, editHist>>
    /\ UNCHANGED <<jobVars, routes, envVars, utilVars>>

\* The store right after `new AppState(routes)`
InitRoute ==
    /\ InitStore
    /\ InitJobsIdle
    /\ InitRestIdle
    /\ routes \in RouteTables
    /\ page = NoPage
    /\ navHist = [calls |-> 0, path |-> <<>>, invoked |-> 0]

NextRoute ==
    \/ \E path \in Paths : navHist.calls < MaxNavigations /\ ChangePage(path)
    \/ \E kind \in Kinds : SetAutoOrganize(kind)
    \/ \E call \in fetches, library \in Libraries : FetchTracksResume(call, library)
    \/ WorkerOnMessage
    \/ OnInitialize
    \/ \E kind \in Kinds : OnGroup(kind)

SpecRoute == InitRoute /\ [][NextRoute]_vars


\* The routes whose pattern matches the path navigated to last
Matching == {i \in DOMAIN routes : Matcher(routes[i], navHist.path).matched}

\* C15: the page changePage stored is that of the first route, in declaration
\* order, whose pattern matches the path (none when no pattern matches); so
\* "/d" (directories) against the pages "/" and "/d" gives the page of "/d".
C15_FirstMatchWins ==
    navHist.calls > 0 =>
        /\ IF Matching = {} THEN page = NoPage
           ELSE LET first == CHOOSE i \in Matching : \A j \in Matching : i <= j
                IN /\ page # NoPage
                   /\ page.path = routes[first].path
                   /\ page.name = routes[first].name
        /\ (/\ Len(routes) = 2
            /\ routes[1].path = Root
            /\ routes[2].path = <<"/", "d">>
            /\ navHist.path = <<"/", "d">>) => page.name = "Directories"

\* "/d" was resolved against the pages "/" and "/d", both of which were tried
C15_Witness ==
    /\ routes[1].path = Root
    /\ navHist.path = <<"/", "d">>
    /\ page # NoPage
    /\ page.name = "Directories"


\* C16: a changePage whose path resolves to a page that declares a callback
\* invokes that callback exactly once, also when the path matches the page's
\* pattern through a named parameter; when the resolved page declares none,
\* or nothing matches, no callback is invoked.
C16_CallbackOncePerResolvedPage ==
    navHist.calls > 0 =>
        LET declared ==
                /\ Matching # {}
                /\ routes[CHOOSE i \in Matching : \A j \in Matching : i <= j]
                       .callback # "none"
        IN navHist.invoked = IF declared THEN 1 ELSE 0


\* The grouping requests of a kind among the posted requests
RequestsOf(kind, posted) ==
    {i \in DOMAIN posted : posted[i].type = RequestOf(kind)}

\* The store's tracks go from none to some
TracksAppear ==
    Cardinality(DOMAIN tracks) = 0 /\ Cardinality(DOMAIN tracks') > 0

\* C17: each time the store's tracks go from empty to non-empty, every
\* grouping kind whose auto-organize flag is set gets exactly one grouping
\* request: not none and not several.
C17_OneRequestPerTransition ==
    [][TracksAppear =>
         \A kind \in Kinds :
            autoOrganize[kind] =>
               /\ Cardinality(RequestsOf(kind, toWorker'))
                    = Cardinality(RequestsOf(kind, toWorker)) + 1
               /\ groupHist'.issued[kind] = groupHist.issued[kind] + 1]_vars

\* Both flags were set while there were no tracks, then the tracks appeared:
\* each kind has had its one request
C17_Witness ==
    /\ Cardinality(DOMAIN tracks) > 0
    /\ \A kind \in Kinds : autoOrganize[kind] /\ groupHist.issued[kind] = 1


-----------------------------------------------------------------------------
(* The selection *)

\* The songs an item refers to
SongsOf(item) ==
    IF IsSong(item) THEN {item.song}
    ELSE IF IsGroup(item) THEN Range(item.songs)
    ELSE {}

\* C18: in every reachable state the selection refers only to tracks of the
\* store's current tracks: the id of every selected song (the one song, or
\* each song of a selected group) is a key of the track map.
C18_SelectionWithinTracks ==
    \A song \in SongsOf(selectedItem) : song.id \in DOMAIN tracks


\* C19: assigning selectedItem an item that equals the selection under the
\* id/key rule (same song id, same group label, both null) leaves the stored
\* selection as it is; assigning any other item makes that item the selection.
C19_SelectOnlyIfDifferent ==
    [][\A item \in Selectable :
          SetSelectedItem(item) =>
             selectedItem' = IF IsItemEqual(selectedItem, item)
                             THEN selectedItem ELSE item]_vars

\* A group is selected and the page offers a group of the same label with
\* other songs: assigning it leaves the selection as it is
C19_Witness ==
    /\ IsGroup(selectedItem)
    /\ \E item \in Selectable :
          /\ IsGroup(item)
          /\ item.label = selectedItem.label
          /\ item.songs # selectedItem.songs


\* One item is a group and the other a song
Mixed(a, b) == (IsGroup(a) /\ IsSong(b)) \/ (IsSong(a) /\ IsGroup(b))

\* C20: a group and a song are never equal selections, whatever they hold:
\* assigning a song while a group is selected (also a group that lists the
\* song) makes the song the selection, and assigning a group while a song is
\* selected makes the group the selection.
C20_GroupNeverEqualsSong ==
    [][\A item \in Selectable :
          (Mixed(selectedItem, item) /\ SetSelectedItem(item)) =>
             /\ ~IsItemEqual(selectedItem, item)
             /\ ~IsItemEqual(item, selectedItem)
             /\ selectedItem' = item]_vars

\* A song is selected that a group on offer lists
C20_Witness ==
    /\ IsSong(selectedItem)
    /\ \E item \in Selectable :
          /\ IsGroup(item)
          /\ \E i \in DOMAIN item.songs : item.songs[i].id = selectedItem.song.id


-----------------------------------------------------------------------------
(* The events of the stream, one kind at a time *)

StreamEvents == JobEvents \cup AliasedReportEvents

\* C21: an orderUpdated event makes its payload the whole queue order,
\* whatever the order was before, and changes neither the run states nor the
\* reports.
C21_OrderReplacedWhole ==
    [][\A event \in StreamEvents :
          (event.kind = "orderUpdated" /\ OnJobEvent(event)) =>
             /\ jobQueue' = ReviveStrings(event.queue)
             /\ jobStates' = jobStates
             /\ jobReports' = jobReports]_vars

\* An orderUpdated event, not the start-up fetch, set the order to ["r2"]
C21_Witness ==
    /\ mountPc = "getJobs"
    /\ jobQueue = <<"r2">>
    /\ jobHist.declared = <<"r2">>

\* The fields a stateUpdated or progress event carries for the run's entry
Overrides(event) ==
    IF event.kind = "stateUpdated" THEN ReviveEvent(event).state
    ELSE [current |-> event.current, total |-> event.total]

\* C22: a stateUpdated or progress event for a run that is present leaves an
\* entry that is the previous one with the event's fields on top (for
\* progress only current and total) and every other field as it was, all
\* other entries untouched; for a run that is absent the map is unchanged.
C22_MergeOrNothing ==
    [][\A event \in StreamEvents :
          (event.kind \in {"stateUpdated", "progress"} /\ OnJobEvent(event)) =>
             IF event.source \notin Keys(jobStates)
             THEN jobStates' = jobStates
             ELSE /\ Len(jobStates') = Len(jobStates)
                  /\ \A i \in DOMAIN jobStates :
                        /\ jobStates'[i][1] = jobStates[i][1]
                        /\ jobStates[i][1] # event.source
                              => jobStates'[i] = jobStates[i]
                  /\ LET previous == ValueOf(jobStates, event.source)
                         next == ValueOf(jobStates', event.source)
                         over == Overrides(event)
                     IN /\ DOMAIN next = DOMAIN previous \cup DOMAIN over
                        /\ \A f \in DOMAIN next :
                              next[f] = IF f \in DOMAIN over THEN over[f]
                                        ELSE previous[f]]_vars

\* A run that has reported progress and has come to its end, next to a run
\* that was removed: later events for the one merged, for the other did not
C22_Witness ==
    /\ \E run \in Keys(jobStates) :
          /\ "current" \in DOMAIN ValueOf(jobStates, run)
          /\ ValueOf(jobStates, run).status = "done"
    /\ \E run \in jobHist.removed : run \notin Keys(jobStates)

\* C23: right after a stateRemoved event the run is absent from the run
\* states, whatever events for it came before, and the entries of the other
\* runs are as they were.
C23_RemovedIsAbsent ==
    [][\A event \in StreamEvents :
          (event.kind = "stateRemoved" /\ OnJobEvent(event)) =>
             /\ Keys(jobStates') = Keys(jobStates) \ {event.source}
             /\ \A run \in Keys(jobStates') :
                   ValueOf(jobStates', run) = ValueOf(jobStates, run)]_vars

\* r1 was removed and is absent while r2, which reported progress, is there
C23_Witness ==
    /\ "r1" \in jobHist.removed
    /\ Keys(jobStates) = {"r2"}
    /\ "current" \in DOMAIN ValueOf(jobStates, "r2")

\* C24: a reportUpdated event stores its report under its job id and leaves
\* every other report, the run states and the queue order as they were, also
\* when the run states hold a run whose id is that same string.
C24_ReportUpsertOnly ==
    [][\A event \in StreamEvents :
          (event.kind = "reportUpdated" /\ OnJobEvent(event)) =>
             /\ DOMAIN jobReports' = DOMAIN jobReports \cup {event.jobId}
             /\ jobReports'[event.jobId] = ReviveEvent(event).report
             /\ \A job \in DOMAIN jobReports \ {event.jobId} :
                   jobReports'[job] = jobReports[job]
             /\ jobStates' = jobStates
             /\ jobQueue' = jobQueue]_vars

\* A report is stored under "r1" while the run r1 has its state
C24_Witness ==
    /\ "r1" \in DOMAIN jobReports
    /\ "r1" \in Keys(jobStates)
    /\ "j1" \in DOMAIN jobReports

\* A step in which the listener drops an event it cannot parse
MalformedStep ==
    jobHist.malformed # "dropped" /\ jobHist'.malformed = "dropped"

\* C25: an event whose data does not parse changes neither the run states
\* nor the queue order nor the reports and leaves the listener in place;
\* the events that arrive after it are applied as usual.
C25_MalformedIsSkipped ==
    [][/\ MalformedStep =>
            /\ UNCHANGED <<jobStates, jobQueue, jobReports>>
            /\ mountPc' = mountPc
       /\ \A event \in StreamEvents :
            (jobHist.malformed = "dropped" /\ OnJobEvent(event)) =>
               /\ jobHist'.malformed = "followed"
               /\ event.kind = "stateAdded" => event.source \in Keys(jobStates')
               /\ event.kind = "orderUpdated" => jobQueue' = event.queue
               /\ event.kind = "stateRemoved" => event.source \notin Keys(jobStates')]_vars

\* An event was dropped, and events that came after it were applied
C25_Witness ==
    /\ jobHist.malformed = "followed"
    /\ jobQueue # <<>>
    /\ jobStates # <<>>


-----------------------------------------------------------------------------
(* Failures of the store's operations *)

\* C26: when the request for the song list fails, fetchTracks fails with the
\* request's error, starts no other request, sends nothing to the worker and
\* leaves the tracks, the worker's snapshot, the overlay, the group maps and
\* the selection as they were.
C26_FailedFetchChangesNothing ==
    [][\A call \in 1..MaxLoads :
          FetchTracksReject(call) =>
             /\ thrown' = "JSON fetch failed..."
             /\ fetches' = fetches \ {call}
             /\ loadHist' = loadHist
             /\ toWorker' = toWorker
             /\ UNCHANGED <<tracks, songs, editedTracks, artists, albums,
                            selectedItem>>]_vars

\* A request failed after an earlier one had filled the worker's snapshot
C26_Witness ==
    /\ thrown = "JSON fetch failed..."
    /\ songs # <<>>
    /\ toWorker = <<>>

\* C27: extendTrackInfo with an id that is not a key of the tracks fails with
\* "Track not found" and leaves the tracks, the overlay, the group maps and
\* the selection as they were.
C27_UnknownTrackIsRefused ==
    [][\A id \in TrackIds, info \in ExtraInfo :
          (id \notin DOMAIN tracks /\ ExtendTrackInfo(id, info)) =>
             /\ thrown' = "Track not found"
             /\ UNCHANGED <<tracks, editedTracks, artists, albums,
                            selectedItem>>]_vars

\* The call was refused while the tracks were not empty
C27_Witness ==
    /\ thrown = "Track not found"
    /\ tracks # EmptyMap


\* C28: once the acknowledgement of initialize has been applied, the store's
\* tracks hold one entry per acknowledged song, keyed by the song's id: the
\* keys are the ids, and the lookup of an id gives the song of that id.
C28_TracksKeyedById ==
    [][OnInitialize =>
          LET payload == Head(fromWorker).payload IN
             /\ DOMAIN tracks' = {payload[i].id : i \in DOMAIN payload}
             /\ \A key \in DOMAIN tracks' :
                   \E i \in DOMAIN payload :
                      payload[i].id = key /\ tracks'[key] = payload[i]]_vars


-----------------------------------------------------------------------------
(* Child pages *)

\* The route changePage resolved the last path to
FirstMatching == routes[CHOOSE i \in Matching : \A j \in Matching : i <= j]

RECURSIVE SumLengths(_)
SumLengths(pieces) ==
    IF pieces = <<>> THEN 0 ELSE 1 + Len(Head(pieces)) + SumLengths(Tail(pieces))

\* The length of the prefix of the path that a matching pattern consumed:
\* one piece of the path, with its slash, for every segment of the pattern
ConsumedLength(pattern, path) ==
    SumLengths(SubSeq(SplitSlash(Tail(path)), 1, Len(PatternSegments(pattern))))

\* What is left of the path after that prefix, or "/" when nothing is left
Remainder(pattern, path) ==
    LET rest == Slice(path, ConsumedLength(pattern, path))
    IN IF rest = <<>> THEN Root ELSE rest

\* C29: the child of the resolved page is what the parent's children resolve
\* the remainder of the path to: the part after the prefix that the parent's
\* pattern consumed, or "/" when nothing is left, also when a named parameter
\* of the parent has a value longer or shorter than its placeholder.
C29_ChildrenSeeRemainder ==
    (navHist.calls > 0 /\ Matching # {}) =>
        page.child = ResolveRoute(Remainder(FirstMatching.path, navHist.path),
                                  FirstMatching.children)

-----------------------------------------------------------------------------
(* Grouping of values that differ in surrounding whitespace *)

\* A song whose artist and album are those of SongA1 but for a blank
SongP2 == [id |-> "t2", artist |-> " A", album |-> "X "]

PaddedLibraries == {<<SongA1, SongP2>>}

\* String.prototype.trim on the values the libraries hold
Trim(value) ==
    IF value = " A" THEN "A" ELSE IF value = "X " THEN "X" ELSE value

\* The store and the worker, with the padded library among those served
NextWorker ==
    \/ loadHist.calls < MaxLoads /\ FetchTracks
    \/ \E call \in 1..MaxLoads, library \in Libraries \cup PaddedLibraries :
          FetchTracksResume(call, library)
    \/ \E call \in 1..MaxLoads : FetchTracksReject(call)
    \/ WorkerOnMessage
    \/ OnInitialize
    \/ \E kind \in Kinds : OnGroup(kind)
    \/ \E kind \in Kinds : Issued < MaxSchedules /\ ScheduleOrganize(kind)

SpecWorker == InitGroup /\ [][NextWorker]_vars

\* C31: in every grouping the worker answers with, two songs whose artist
\* (or album) differ only in leading or trailing whitespace are members of
\* one group, and that group's key is the trimmed value.
C31_GroupsByTrimmedValue ==
    \A m \in DOMAIN fromWorker : \A kind \in Kinds :
        fromWorker[m].type = RequestOf(kind) =>
            LET groups == fromWorker[m].payload
                field == FieldOf(kind)
                listed == UNION {Range(groups[label]) : label \in DOMAIN groups}
            IN \A a, b \in listed :
                  (/\ ~Absent(a, field)
                   /\ ~Absent(b, field)
                   /\ Trim(a[field]) = Trim(b[field]))
                     => /\ Trim(a[field]) \in DOMAIN groups
                        /\ {a, b} \subseteq Range(groups[Trim(a[field])])


-----------------------------------------------------------------------------
(* Selecting and editing while the auto-organize flags are set *)

NextFrame ==
    \/ \E call \in 1..MaxLoads, library \in Libraries :
          FetchTracksResume(call, library)
    \/ WorkerOnMessage
    \/ OnInitialize
    \/ \E kind \in Kinds : OnGroup(kind)
    \/ \E kind \in Kinds : SetAutoOrganize(kind)
    \/ \E item \in Selectable : SetSelectedItem(item)
    \/ \E field \in EditFields, value \in EditValues :
          editHist.count < MaxEdits /\ EditSelected(field, value)

SpecFrame == InitEdit /\ [][NextFrame]_vars

\* What an edit or a selection must leave alone
Framed == <<tracks, artists, albums, toWorker, organizing>>

\* C32: whatever the auto-organize flags are, selecting an item and editing
\* the selection send no request to the worker, clear no group map and leave
\* the store's tracks as they are.
C32_EditsTouchOverlayOnly ==
    [][/\ \A item \in Selectable :
             SetSelectedItem(item) => UNCHANGED Framed
       /\ \A field \in EditFields, value \in EditValues :
             EditSelected(field, value) => UNCHANGED Framed]_vars

\* With both flags set and tracks loaded, a selected song was edited and is
\* in the overlay, and nothing is on its way to the worker
C32_Witness ==
    /\ \A kind \in Kinds : autoOrganize[kind]
    /\ Cardinality(DOMAIN tracks) > 0
    /\ editHist.count > 0
    /\ IsSong(selectedItem)
    /\ DOMAIN editedTracks # {}
    /\ toWorker = <<>>
    /\ DOMAIN albums # {}


-----------------------------------------------------------------------------
(* The worker's responses *)

\* C33: the worker takes the requests in the order they were posted and
\* answers each with one response of the request's type, posted behind the
\* responses it gave before; nothing else posts a response.
C33_OneResponseInOrder ==
    [][/\ WorkerStep =>
            /\ Len(fromWorker') = Len(fromWorker) + 1
            /\ SubSeq(fromWorker', 1, Len(fromWorker)) = fromWorker
            /\ fromWorker'[Len(fromWorker')].type = Head(toWorker).type
            /\ fromWorker'[Len(fromWorker')].tag = Head(toWorker).tag
       /\ Len(fromWorker') > Len(fromWorker) => WorkerStep]_vars

\* The worker has answered a load and then a grouping, in that order, while
\* neither response has been applied
C33_Witness ==
    /\ toWorker = <<>>
    /\ Len(fromWorker) = 2
    /\ fromWorker[1].type = "initialize"
    /\ fromWorker[2].type \in {"groupArtists", "groupAlbums"}


-----------------------------------------------------------------------------
(* The Jobs page starting up against a backend whose state changes *)

MaxEmitted == 3

\* The events the backend emits here
MountEvents ==
    {[kind |-> "stateAdded", source |-> "r1", state |-> JobState("j1", "pending")],
     [kind |-> "stateUpdated", source |-> "r1", state |-> [status |-> "done"]],
     [kind |-> "stateRemoved", source |-> "r1"],
     [kind |-> "orderUpdated", queue |-> <<"r1">>],
     [kind |-> "orderUpdated", queue |-> <<>>],
     [kind |-> "reportUpdated", jobId |-> "j1", report |-> Report("ok")]}

\* An event the backend can emit in its state: it adds a run it does not
\* have, and updates or removes one it has
Sensible(event) ==
    /\ event.kind = "stateAdded" => event.source \notin Keys(backend.states)
    /\ event.kind \in {"stateUpdated", "stateRemoved"}
          => event.source \in Keys(backend.states)

\* The backend's state changes and it emits the event that says so
ServerChanges(event) ==
    /\ backend.emitted < MaxEmitted
    /\ Sensible(event)
    /\ backend' = [backend EXCEPT !.states = StatesAfter(@, event),
                                  !.queue = QueueAfter(@, event),
                                  !.reports = ReportsAfter(@, event),
                                  !.wire = Append(@, event),
                                  !.emitted = @ + 1]
    /\ UNCHANGED <<storeVars, jobVars, pageVars, utilVars>>

\* What the backend answers a request of onMount with: its state of the
\* moment
AnswerTo(request) ==
    IF request = "getJobStates" THEN backend.states
    ELSE IF request = "getJobQueueOrder" THEN backend.queue
    ELSE backend.reports

\* The backend answers the request onMount is waiting for
ServerAnswers(request) ==
    /\ mountPc = request
    /\ request \notin DOMAIN backend.answers
    /\ backend' = [backend EXCEPT !.answers = With(@, request, AnswerTo(request))]
    /\ UNCHANGED <<storeVars, jobVars, pageVars, utilVars>>

\* The stream delivers the oldest event under way to the listener
DeliverJobEvent ==
    /\ backend.wire # <<>>
    /\ ApplyJobEvent(Head(backend.wire))
    /\ backend' = [backend EXCEPT !.wire = Tail(@)]
    /\ UNCHANGED <<storeVars, pageVars, utilVars>>

\* onMount resumes with the answer to the request it is waiting for
MountResumes(request) ==
    /\ request \in DOMAIN backend.answers
    /\ \E answer \in {backend.answers[request]} :
          IF request = "getJobStates" THEN OnMountStates(answer)
          ELSE IF request = "getJobQueueOrder" THEN OnMountOrder(answer)
          ELSE OnMountReports(answer)

MountRequests == {"getJobStates", "getJobQueueOrder", "getJobReports"}

\* The page right after its script ran, against a backend that may hold a run
InitMount ==
    /\ InitStoreIdle
    /\ InitPagesIdle
    /\ jobs = <<>>
    /\ jobStates = <<>>
    /\ jobQueue = <<>>
    /\ jobReports = EmptyMap
    /\ mountPc = "getJobs"
    /\ jobCalls = {}
    /\ jobHist = [clicks |-> 0, removed |-> {}, declared |-> <<>>, settled |-> {},
                  malformed |-> "none"]
    /\ backend \in {[BackendIdle EXCEPT !.states = states, !.queue = queue] :
                       states \in {<<>>, <<<<"r1", JobState("j1", "pending")>>>>},
                       queue \in {<<>>, <<"r1">>}}
    /\ compared = NotCompared
    /\ listbox = NoListbox

NextMount ==
    \/ \E event \in MountEvents : ServerChanges(event)
    \/ \E request \in MountRequests : ServerAnswers(request)
    \/ DeliverJobEvent
    \/ OnMountJobs
    \/ \E request \in MountRequests : MountResumes(request)
    \/ OnMountFails

SpecMount == InitMount /\ [][NextMount]_vars

\* A map in insertion order, as the function from its keys to their values
AsMap(entries) == [key \in Keys(entries) |-> ValueOf(entries, key)]

\* C34: once onMount has installed the fetched run states, queue order and
\* reports and every event the backend emitted has been applied, the page
\* holds the backend's state: the same runs with the same states, the same
\* queue order, a report for the same jobs; so a run whose stateRemoved
\* arrived before the fetched run states were installed is absent.
C34_MirrorEqualsServer ==
    (mountPc = "mounted" /\ backend.wire = <<>>) =>
        /\ AsMap(jobStates) = AsMap(backend.states)
        /\ jobQueue = backend.queue
        /\ DOMAIN jobReports = DOMAIN backend.reports
        /\ \A job \in DOMAIN jobReports :
              jobReports[job].result = backend.reports[job].result


-----------------------------------------------------------------------------
(* The busy flags *)

\* C35: the flag organizingArtists (organizingAlbums) is true exactly when a
\* groupArtists (groupAlbums) request has been posted whose response has not
\* been applied yet; so it is still true when the first of two responses
\* under way has been applied.
C35_OrganizingIffOutstanding ==
    \A kind \in Kinds : organizing[kind] <=> Outstanding(RequestOf(kind))


\* C36: the flag fetchingTracks is true while a load is under way and false
\* once none is: when the acknowledgement of the last load has been applied,
\* or its fetch has failed, and no other load is under way.
C36_FetchingIffLoading ==
    fetchingTracks <=> LoadsInFlight # {}


\* The other grouping kind
OtherKind(kind) == IF kind = "artists" THEN "albums" ELSE "artists"

\* C37: setting the auto-organize flag of one kind while tracks are loaded
\* posts one grouping request of that kind and none of the other kind, and
\* leaves the other kind's group map as it is, also when the other kind's
\* flag is set already.
C37_OnlyTheKindEnabled ==
    [][\A kind \in Kinds :
          (SetAutoOrganize(kind) /\ Cardinality(DOMAIN tracks) > 0) =>
             /\ Cardinality(RequestsOf(kind, toWorker'))
                  = Cardinality(RequestsOf(kind, toWorker)) + 1
             /\ RequestsOf(OtherKind(kind), toWorker')
                  = RequestsOf(OtherKind(kind), toWorker)
             /\ GroupMap(OtherKind(kind))' = GroupMap(OtherKind(kind))]_vars


-----------------------------------------------------------------------------
(* deepCompare: lib/utils/compare.ts *)

\* The objects a call may be given. A value is a primitive (a string, null,
\* undefined) or the name of an object of the heap, so that two objects with
\* the same content are still two objects.
Obj(props) == [class |-> "Object", text |-> "", props |-> props]
DateObj(text) == [class |-> "Date", text |-> text, props |-> EmptyMap]

Heap ==
    [o1 |-> Obj([n |-> "1"]),
     o2 |-> Obj([n |-> "1"]),
     o3 |-> Obj([n |-> "2"]),
     o4 |-> Obj([a |-> "o1"]),
     o5 |-> Obj([a |-> "o2"]),
     o6 |-> Obj([a |-> "o1"]),
     o7 |-> Obj([a |-> "o3"]),
     o8 |-> Obj(EmptyMap),
     o9 |-> Obj([n |-> Undefined]),
     oA |-> Obj([a |-> "o4", n |-> "1"]),
     oB |-> Obj([a |-> "o5", n |-> "1"]),
     d1 |-> DateObj("2024-01-01"),
     d2 |-> DateObj("2024-01-01"),
     d3 |-> DateObj("2025-01-01")]

IsObject(value) == value \in DOMAIN Heap
Values == DOMAIN Heap \cup {"1", "2", Null, Undefined}

\* typeof value
TypeOf(value) ==
    IF IsObject(value) \/ value = Null THEN "object"
    ELSE IF value = Undefined THEN "undefined"
    ELSE "string"

\* The default of maxDepth, and depth - 1
Infinity == 1000
Minus1(depth) == IF depth = Infinity THEN Infinity ELSE depth - 1

\* compare(x, y, leftChain, rightChain, depth); the chains are those of the
\* moment of the call, what was pushed before it included
RECURSIVE Compare(_, _, _, _, _)
Compare(x, y, leftChain, rightChain, depth) ==
    IF depth < 0 THEN TRUE
    ELSE IF x = y THEN TRUE
    ELSE IF IsObject(x) /\ IsObject(y) /\ Heap[x].class = "Date" /\ Heap[y].class = "Date"
    THEN Heap[x].text = Heap[y].text
    ELSE IF ~(IsObject(x) /\ IsObject(y)) THEN FALSE
    ELSE IF Heap[x].class # Heap[y].class THEN FALSE
    ELSE IF x \in Range(leftChain) \/ y \in Range(rightChain) THEN FALSE
    ELSE \A key \in DOMAIN Heap[x].props \cup DOMAIN Heap[y].props :
            LET valX == Get(Heap[x].props, key)
                valY == Get(Heap[y].props, key)
            IN IF TypeOf(valX) # TypeOf(valY) THEN FALSE
               ELSE IF TypeOf(valX) = "object" /\ depth > 0
               THEN Compare(valX, valY, Append(leftChain, valX),
                            Append(rightChain, valY), Minus1(depth))
               ELSE valX = valY

\* deepCompare(a, b, maxDepth)
DeepCompare(a, b, maxDepth) == Compare(a, b, <<>>, <<>>, maxDepth)

\* deepCompare(a, b) is called
CallDeepCompare(a, b) ==
    /\ compared' = [called |-> TRUE, a |-> a, b |-> b,
                    result |-> DeepCompare(a, b, Infinity)]
    /\ UNCHANGED <<storeVars, jobVars, pageVars, envVars, listbox>>

InitCompare ==
    /\ InitStoreIdle
    /\ InitJobsIdle
    /\ InitPagesIdle
    /\ InitRestIdle

NextCompare == \E a \in Values, b \in Values : CallDeepCompare(a, b)

SpecCompare == InitCompare /\ [][NextCompare]_vars

\* Two values are structurally equal: the same primitive, or objects of one
\* class with the same keys and structurally equal values under every key
RECURSIVE StructurallyEqual(_, _)
StructurallyEqual(x, y) ==
    IF ~IsObject(x) \/ ~IsObject(y) THEN x = y
    ELSE /\ Heap[x].class = Heap[y].class
         /\ Heap[x].text = Heap[y].text
         /\ DOMAIN Heap[x].props = DOMAIN Heap[y].props
         /\ \A key \in DOMAIN Heap[x].props :
               StructurallyEqual(Heap[x].props[key], Heap[y].props[key])

\* C38: deepCompare(a, b) without a depth limit is true exactly when a and b
\* are structurally equal, also when the objects they nest are different
\* instances, so it is true of a value and itself and does not depend on the
\* order of its arguments.
C38_TrueIffStructurallyEqual ==
    compared.called =>
        /\ compared.result = StructurallyEqual(compared.a, compared.b)
        /\ compared.result = DeepCompare(compared.b, compared.a, Infinity)
        /\ DeepCompare(compared.a, compared.a, Infinity)


-----------------------------------------------------------------------------
(* The Listbox component: components/Listbox.svelte (src/unnamed/part_002) *)

MaxOptions == 3
MaxStack == 4

\* The options lists, each option given by what isOptionDisabled says of it
OptionLists == UNION {[1..n -> BOOLEAN] : n \in 0..MaxOptions}

Min(a, b) == IF a < b THEN a ELSE b
Max(a, b) == IF a > b THEN a ELSE b

\* disabledOptions: options.filter(isOptionDisabled).map((_, index) => index),
\* the indices the disabled options have in the filtered array
DisabledOptions(options) ==
    LET Disabled(flag) == flag
    IN {index - 1 : index \in DOMAIN SelectSeq(options, Disabled)}

\* selectOption(index)
SelectOptionIn(box, index) == [box EXCEPT !.selectedIndex = index]

\* invalidateSelection()
InvalidateIn(box) == [box EXCEPT !.selectedIndex = -1]

\* The call stack is exhausted: a RangeError leaves the function
Overflow(box) == [box EXCEPT !.outcome = "RangeError"]

\* selectNext(), with the number of stack frames left; the calls share the
\* component's selectedIndex
RECURSIVE SelectNextIn(_, _)
SelectNextIn(box, frames) ==
    IF frames = 0 THEN Overflow(box)
    ELSE LET nextIndex == Min(box.selectedIndex + 1, Len(box.options) - 1)
         IN IF nextIndex \in DisabledOptions(box.options)
            THEN IF nextIndex = Len(box.options) - 1 THEN InvalidateIn(box)
                 ELSE SelectNextIn(box, frames - 1)
            ELSE SelectOptionIn(box, nextIndex)

\* selectPrevious()
RECURSIVE SelectPreviousIn(_, _)
SelectPreviousIn(box, frames) ==
    IF frames = 0 THEN Overflow(box)
    ELSE LET previousIndex == Max(box.selectedIndex - 1, 0)
         IN IF previousIndex \in DisabledOptions(box.options)
            THEN IF previousIndex = 0 THEN InvalidateIn(box)
                 ELSE SelectPreviousIn(box, frames - 1)
            ELSE SelectOptionIn(box, previousIndex)

\* selectFirst()
SelectFirstIn(box, frames) ==
    IF Len(box.options) = 0 THEN InvalidateIn(box)
    ELSE IF 0 \in DisabledOptions(box.options) THEN SelectNextIn(box, frames - 1)
    ELSE SelectOptionIn(box, 0)

\* selectLast()
SelectLastIn(box, frames) ==
    IF Len(box.options) = 0 THEN InvalidateIn(box)
    ELSE IF (Len(box.options) - 1) \in DisabledOptions(box.options)
    THEN SelectPreviousIn(box, frames - 1)
    ELSE SelectOptionIn(box, Len(box.options) - 1)

Navigations == {"selectNext", "selectPrevious", "selectFirst", "selectLast"}

\* What one call of an exported function leaves of the component
After(call, box) ==
    LET fresh == [box EXCEPT !.last = call, !.outcome = "returned"]
    IN IF call = "selectNext" THEN SelectNextIn(fresh, MaxStack)
       ELSE IF call = "selectPrevious" THEN SelectPreviousIn(fresh, MaxStack)
       ELSE IF call = "selectFirst" THEN SelectFirstIn(fresh, MaxStack)
       ELSE SelectLastIn(fresh, MaxStack)

\* The parent calls selectNext, selectPrevious, selectFirst or selectLast
Navigate(call) ==
    /\ listbox' = After(call, listbox)
    /\ UNCHANGED <<storeVars, jobVars, pageVars, envVars, compared>>

\* The parent calls selectOption(index)
SelectOption(index) ==
    /\ index \in 0..(Len(listbox.options) - 1)
    /\ listbox' = SelectOptionIn([listbox EXCEPT !.last = "selectOption",
                                                !.outcome = "returned"], index)
    /\ UNCHANGED <<storeVars, jobVars, pageVars, envVars, compared>>

\* The parent calls invalidateSelection()
InvalidateSelection ==
    /\ listbox' = InvalidateIn([listbox EXCEPT !.last = "invalidateSelection",
                                              !.outcome = "returned"])
    /\ UNCHANGED <<storeVars, jobVars, pageVars, envVars, compared>>

\* A Listbox just shown: nothing is selected
InitListbox ==
    /\ InitStoreIdle
    /\ InitJobsIdle
    /\ InitPagesIdle
    /\ backend = BackendIdle
    /\ compared = NotCompared
    /\ listbox \in {[shown |-> TRUE, options |-> options, selectedIndex |-> -1,
                     last |-> "none", outcome |-> "returned"] :
                       options \in OptionLists}

NextListbox ==
    \/ \E call \in Navigations : Navigate(call)
    \/ \E index \in 0..(MaxOptions - 1) : SelectOption(index)
    \/ InvalidateSelection

SpecListbox == InitListbox /\ [][NextListbox]_vars

\* C39: selectNext, selectPrevious, selectFirst and selectLast return, for
\* every list of options, every choice of disabled options and every
\* selected index, and leave either an enabled option selected or nothing
\* selected (index -1), never a disabled option.
C39_NavigationEndsOnEnabled ==
    listbox.last \in Navigations =>
        /\ listbox.outcome = "returned"
        /\ \/ listbox.selectedIndex = -1
           \/ /\ listbox.selectedIndex \in 0..(Len(listbox.options) - 1)
              /\ ~listbox.options[listbox.selectedIndex + 1]

====
